---- MODULE Spec2Model ----
(***************************************************************************)
(* podcastman: the script pipeline (agents/graph.py), the timeline         *)
(* assembler (audio/assembler.py), the synthesis engine (tts/engine.py)    *)
(* and the job API (api/routes.py) as state machines.                      *)
(*                                                                         *)
(* Each component has its own variables and its own specification; a       *)
(* specification holds the other components' variables at a parked value.  *)
(* Text is a sequence of one-character strings, so that emptiness and      *)
(* str.strip() are computed and not assumed.                               *)
(***************************************************************************)
EXTENDS Integers, Sequences, FiniteSets, TLC

VARIABLES
    node,       \* pipeline: the graph node the executor runs next
    state,      \* pipeline: the GraphState dict
    calls,      \* pipeline: history of the stage calls made, in order
    asmArgs,    \* assembler: the arguments and settings of one assemble_podcast call
    podcast,    \* assembler: the AudioSegment built so far, as a sequence of spans
    asmPc,      \* assembler: "call" before the call, "returned" or "raised" after it
    tts_available,  \* engine: the module flag _tts_available
    tts_model,      \* engine: the module global _tts_model ("None" or "model")
    thr,            \* engine: per thread, the engine call it is in and where
    loads,          \* engine: history, the number of model loads started
    loadFailed,     \* engine: history, whether a model load has failed
    jobs,           \* API: the in-memory job store _jobs (job id -> dict)
    tasks,          \* API: the background tasks, each with its position
    fs,             \* API: the paths that exist under the segments directory
    fsLog,          \* API: history, which run created, wrote or removed which path
    resp,           \* API: the response to the last upload-blog / generate-podcast
    chunkArgs,      \* chunker: the arguments of one chunk_text call
    chunks,         \* chunker: the list chunk_text returned
    chunkPc,        \* chunker: "call" before the call, "returned" after it
    parseArgs,      \* dialogue parser: the function called and its arguments
    segments,       \* dialogue parser: the list of turns it returned
    parsePc         \* dialogue parser: "call" before the call, "returned" after it

pipeVars == <<node, state, calls>>
asmVars == <<asmArgs, podcast, asmPc>>
engVars == <<tts_available, tts_model, thr, loads, loadFailed>>
apiVars == <<jobs, tasks, fs, fsLog, resp>>
chunkVars == <<chunkArgs, chunks, chunkPc>>
parseVars == <<parseArgs, segments, parsePc>>

vars == <<node, state, calls, asmArgs, podcast, asmPc,
          tts_available, tts_model, thr, loads, loadFailed,
          jobs, tasks, fs, fsLog, resp, chunkArgs, chunks, chunkPc,
          parseArgs, segments, parsePc>>

\* What the actions of one component leave alone.
pipeOthers == <<asmVars, engVars, apiVars, chunkVars, parseVars>>
asmOthers == <<pipeVars, engVars, apiVars, chunkVars, parseVars>>
engOthers == <<pipeVars, asmVars, apiVars, chunkVars, parseVars>>
apiOthers == <<pipeVars, asmVars, engVars, chunkVars, parseVars>>
chunkOthers == <<pipeVars, asmVars, engVars, apiVars, parseVars>>
parseOthers == <<pipeVars, asmVars, engVars, apiVars, chunkVars>>

----------------------------------------------------------------------------
(* Text                                                                    *)

\* Longest LLM reply the pipeline specification enumerates.
MaxLen == 2

Chars == {" ", "a"}

RECURSIVE TextsUpTo(_)
TextsUpTo(n) ==
    IF n = 0 THEN {<<>>}
    ELSE LET shorter == TextsUpTo(n - 1)
         IN shorter \cup {Append(t, c) : t \in {s \in shorter : Len(s) = n - 1}, c \in Chars}

\* str.strip(): leading and trailing whitespace removed.
RECURSIVE lstrip(_)
lstrip(s) == IF s # <<>> /\ Head(s) = " " THEN lstrip(Tail(s)) ELSE s

RECURSIVE rstrip(_)
rstrip(s) ==
    IF s # <<>> /\ s[Len(s)] = " " THEN rstrip(SubSeq(s, 1, Len(s) - 1)) ELSE s

strip(s) == rstrip(lstrip(s))

\* Python truthiness of a str.
Truthy(s) == s # <<>>

----------------------------------------------------------------------------
(* The four agents: one LLM completion each, then the empty-reply check.   *)

\* What litellm.completion (or the retrieval before it) can do.
LLMReplies ==
    {[kind |-> "content", content |-> c] : c \in TextsUpTo(MaxLen)}
        \cup {[kind |-> "none", content |-> <<>>]}
        \cup {[kind |-> "raise", content |-> <<>>]}

Returned(script) == [ok |-> TRUE, value |-> script, exc |-> ""]
Raised(msg) == [ok |-> FALSE, value |-> <<>>, exc |-> msg]

\* Variant: the reply's content is returned without the empty-reply check.
AgentResultUnchecked(reply, emptyMsg) ==
    IF reply.kind = "raise" THEN Raised("completion failed")
    ELSE Returned(reply.content)

\* The shared body of the agents: the reply's content, validated.
AgentResult(reply, emptyMsg) ==
    IF reply.kind = "raise" THEN Raised("completion failed")
    ELSE IF reply.kind = "none" \/ ~Truthy(reply.content)
            \/ Len(strip(reply.content)) = 0
         THEN Raised(emptyMsg)
         ELSE Returned(reply.content)

generate_script(reply) == AgentResult(reply, "LLM returned empty script content")
check_accuracy(reply) == AgentResult(reply, "LLM returned empty accuracy-checked script")
enhance_storytelling(reply) ==
    AgentResult(reply, "LLM returned empty storytelling-enhanced script")
optimize_engagement(reply) ==
    AgentResult(reply, "LLM returned empty engagement-optimized script")

----------------------------------------------------------------------------
(* The graph nodes. A node returns the dict of the keys it updates.        *)

\* dict.get(key, default)
Get(d, key, default) == IF key \in DOMAIN d THEN d[key] ELSE default

\* LangGraph merges a node's returned dict into the state, key by key.
Merge(d, upd) == [k \in DOMAIN d |-> IF k \in DOMAIN upd THEN upd[k] ELSE d[k]]

ErrorEntry(stage, exc) == [stage |-> stage, exc |-> exc]

initial_state ==
    [raw_script |-> <<>>, accuracy_checked_script |-> <<>>,
     enhanced_script |-> <<>>, final_script |-> <<>>, errors |-> <<>>]

GenerateUpdate(st, res) ==
    IF res.ok THEN [raw_script |-> res.value]
    ELSE [raw_script |-> <<>>,
          errors |-> Get(st, "errors", <<>>) \o <<ErrorEntry("Script generation", res.exc)>>]

\* The script a later node reads, and whether it calls its agent at all.
AccuracyInput(st) == Get(st, "raw_script", <<>>)
StorytellingInput(st) == Get(st, "accuracy_checked_script", Get(st, "raw_script", <<>>))
EngagementInput(st) == Get(st, "enhanced_script", Get(st, "accuracy_checked_script", <<>>))

\* Variant: a failed stage records its error and leaves its output field alone.
LaterNodeUpdateNoFallback(st, script, res, field, noScript, stage) ==
    IF ~Truthy(script)
    THEN [errors |-> Get(st, "errors", <<>>) \o <<ErrorEntry(noScript, "")>>]
    ELSE IF res.ok THEN (field :> res.value)
    ELSE [errors |-> Get(st, "errors", <<>>) \o <<ErrorEntry(stage, res.exc)>>]

\* Variant: a failed stage replaces the error list by its own error.
LaterNodeUpdateOverwriteErrors(st, script, res, field, noScript, stage) ==
    IF ~Truthy(script)
    THEN [errors |-> <<ErrorEntry(noScript, "")>>]
    ELSE IF res.ok THEN (field :> res.value)
    ELSE (field :> script) @@ [errors |-> <<ErrorEntry(stage, res.exc)>>]

\* The shared shape of nodes 2..4: no script, success, or fall back to the input.
LaterNodeUpdate(st, script, res, field, noScript, stage) ==
    IF ~Truthy(script)
    THEN [errors |-> Get(st, "errors", <<>>) \o <<ErrorEntry(noScript, "")>>]
    ELSE IF res.ok THEN (field :> res.value)
    ELSE (field :> script) @@
         [errors |-> Get(st, "errors", <<>>) \o <<ErrorEntry(stage, res.exc)>>]

AccuracyUpdate(st, res) ==
    LaterNodeUpdate(st, AccuracyInput(st), res, "accuracy_checked_script",
                    "No script to fact-check", "Accuracy check")

StorytellingUpdate(st, res) ==
    LaterNodeUpdate(st, StorytellingInput(st), res, "enhanced_script",
                    "No script to enhance", "Storytelling")

EngagementUpdate(st, res) ==
    LaterNodeUpdate(st, EngagementInput(st), res, "final_script",
                    "No script to optimize", "Engagement")

\* Variant: the pipeline continues whatever the first node returned.
should_continue_always(st) == "continue"

should_continue(st) ==
    IF ~Truthy(Get(st, "raw_script", <<>>)) /\ Get(st, "errors", <<>>) # <<>>
    THEN "abort" ELSE "continue"

\* build_pipeline: the edges.
AfterGenerate(st) == IF should_continue(st) = "abort" THEN "END" ELSE "accuracy_check"
AfterAccuracy == "storytelling"
AfterStorytelling == "engagement"
\* Variant: the last edge leads back into the graph.
AfterEngagementLoop == "storytelling"

AfterEngagement == "END"

CallEntry(stage, input, res) == [stage |-> stage, input |-> input, res |-> res]

\* run_pipeline hands initial_state to the compiled graph at its entry point.
PipeInit ==
    /\ node = "generate_script"
    /\ state = initial_state
    /\ calls = <<>>

node_generate_script ==
    /\ node = "generate_script"
    /\ \E reply \in LLMReplies :
         LET res == generate_script(reply)
             new == Merge(state, GenerateUpdate(state, res))
         IN /\ state' = new
            /\ calls' = Append(calls, CallEntry("generate_script", <<>>, res))
            /\ node' = AfterGenerate(new)
    /\ UNCHANGED pipeOthers

node_accuracy_check ==
    /\ node = "accuracy_check"
    /\ \E reply \in LLMReplies :
         LET script == AccuracyInput(state)
             res == check_accuracy(reply)
         IN /\ state' = Merge(state, AccuracyUpdate(state, res))
            /\ calls' = IF Truthy(script)
                        THEN Append(calls, CallEntry("accuracy_check", script, res))
                        ELSE calls
            /\ node' = AfterAccuracy
    /\ UNCHANGED pipeOthers

node_storytelling ==
    /\ node = "storytelling"
    /\ \E reply \in LLMReplies :
         LET script == StorytellingInput(state)
             res == enhance_storytelling(reply)
         IN /\ state' = Merge(state, StorytellingUpdate(state, res))
            /\ calls' = IF Truthy(script)
                        THEN Append(calls, CallEntry("storytelling", script, res))
                        ELSE calls
            /\ node' = AfterStorytelling
    /\ UNCHANGED pipeOthers

node_engagement ==
    /\ node = "engagement"
    /\ \E reply \in LLMReplies :
         LET script == EngagementInput(state)
             res == optimize_engagement(reply)
         IN /\ state' = Merge(state, EngagementUpdate(state, res))
            /\ calls' = IF Truthy(script)
                        THEN Append(calls, CallEntry("engagement", script, res))
                        ELSE calls
            /\ node' = AfterEngagement
    /\ UNCHANGED pipeOthers

PipeNext ==
    \/ node_generate_script
    \/ node_accuracy_check
    \/ node_storytelling
    \/ node_engagement

PipeParked ==
    /\ node = "off"
    /\ state = initial_state
    /\ calls = <<>>

----------------------------------------------------------------------------
(* The timeline assembler (audio/assembler.py). Audio is its length in ms. *)

\* Longest segment list an assemble_podcast call is given.
MaxSegments == 2

pause_between_speakers_ms == 400
PauseCueSilenceMs == 800
IntroOutroGapMs == 500

Speakers == {"HOST_A", "HOST_B"}
CueLists == {<<>>, <<"pause">>, <<"excited">>}
AudioLengths == {120, 250}
PauseArgs == {0, 300}

RECURSIVE SeqsUpTo(_, _)
SeqsUpTo(S, n) ==
    IF n = 0 THEN {<<>>}
    ELSE LET shorter == SeqsUpTo(S, n - 1)
         IN shorter \cup {Append(t, x) : t \in {q \in shorter : Len(q) = n - 1}, x \in S}

\* An optional value: None, or a given number.
None == [none |-> TRUE, ms |-> 0]
Some(n) == [none |-> FALSE, ms |-> n]

\* Python's "x or default" on an optional int: None and 0 are both falsy.
OrDefault(x, default) == IF x.none \/ x.ms = 0 THEN default ELSE x.ms

Span(kind, ms) == [kind |-> kind, ms |-> ms]

Min(a, b) == IF a <= b THEN a ELSE b

\* The body of the for loop over zip(processed_segments, speaker_segments),
\* from pair i on; prev is prev_speaker ("" for None).
RECURSIVE AssembleLoop(_, _, _, _, _, _)
AssembleLoop(acc, processed, metas, pause, prev, i) ==
    IF i > Min(Len(processed), Len(metas)) THEN acc
    ELSE LET meta == metas[i]
             a1 == IF prev # "" /\ meta.speaker # prev
                   THEN Append(acc, Span("silence", pause)) ELSE acc
             a2 == IF \E k \in 1..Len(meta.cues) : meta.cues[k] = "pause"
                   THEN Append(a1, Span("silence", PauseCueSilenceMs)) ELSE a1
             a3 == Append(a2, Span("audio", processed[i]))
         IN AssembleLoop(a3, processed, metas, pause, meta.speaker, i + 1)

\* assemble_podcast up to the export: the spans of the exported AudioSegment.
Assemble(args) ==
    LET pause == OrDefault(args.pause_ms, pause_between_speakers_ms)
        start == IF ~args.intro.none
                 THEN <<Span("intro", args.intro.ms), Span("silence", IntroOutroGapMs)>>
                 ELSE <<>>
        body == AssembleLoop(start, args.processed_segments, args.speaker_segments,
                             pause, "", 1)
    IN IF ~args.outro.none
       THEN body \o <<Span("silence", IntroOutroGapMs), Span("outro", args.outro.ms)>>
       ELSE body

AsmInit ==
    /\ asmArgs \in
          [processed_segments : SeqsUpTo(AudioLengths, MaxSegments),
           speaker_segments : SeqsUpTo([speaker : Speakers, cues : CueLists], MaxSegments),
           pause_ms : {None} \cup {Some(p) : p \in PauseArgs},
           intro : {None, Some(1500)},
           outro : {None, Some(900)}]
    /\ podcast = <<>>
    /\ asmPc = "call"

\* The code has no raising path before the export: every call returns.
assemble_podcast ==
    /\ asmPc = "call"
    /\ podcast' = Assemble(asmArgs)
    /\ asmPc' = "returned"
    /\ UNCHANGED asmArgs
    /\ UNCHANGED asmOthers

AsmNext == assemble_podcast

AsmParked ==
    /\ asmArgs = <<>>
    /\ podcast = <<>>
    /\ asmPc = "off"

----------------------------------------------------------------------------
(* The synthesis engine (tts/engine.py): the availability flag and the     *)
(* lazily loaded model, called from several threads.                       *)

\* Threads calling into the engine.
NumThreads == 2

\* Most segments one synthesize_all call is given.
MaxAllSegments == 1

Threads == 1..NumThreads
Entries == {"synthesize_segment", "synthesize_all", "_get_model"}
LoadOutcomes == {"ok", "ImportError", "MemoryError", "Exception"}

IdleThread ==
    [pc |-> "idle", entry |-> "", left |-> 0, late |-> FALSE, tried |-> FALSE,
     result |-> "none"]

FirstPc(entry) ==
    CASE entry = "synthesize_segment" -> "seg_require"
      [] entry = "synthesize_all" -> "all_require"
      [] entry = "_get_model" -> "gm_require"

\* _require_tts: whether it raises TTSUnavailableError.
RequireRaisesNever(available) == FALSE

require_tts_raises(available) == ~available

\* The value every except branch of _get_model stores in _tts_available.
FlagAfterLoadFailureGenericKept(exc) == exc = "Exception"

FlagAfterLoadFailure(exc) == FALSE

\* The call of thread t ends: it returns or the exception leaves it.
EndCall(t, result) == thr' = [thr EXCEPT ![t].pc = "idle", ![t].result = result]

EngInit ==
    /\ tts_available \in BOOLEAN      \* False when DISABLE_TTS is set
    /\ tts_model = "None"
    /\ thr = [t \in Threads |-> IdleThread]
    /\ loads = 0
    /\ loadFailed = FALSE

\* A thread calls one of the engine's entry points.
call_engine(t) ==
    /\ thr[t].pc = "idle"
    /\ \E entry \in Entries, n \in 0..MaxAllSegments :
         /\ entry # "synthesize_all" => n = 0
         /\ thr' = [thr EXCEPT ![t] =
                [pc |-> FirstPc(entry), entry |-> entry, left |-> n,
                 late |-> loadFailed, tried |-> FALSE, result |-> "none"]]
    /\ UNCHANGED <<tts_available, tts_model, loads, loadFailed>>
    /\ UNCHANGED engOthers

\* synthesize_all, lines 201-213: _require_tts, then the run directory.
synthesize_all_begin(t) ==
    /\ thr[t].pc = "all_require"
    /\ IF require_tts_raises(tts_available)
       THEN EndCall(t, "TTSUnavailableError")
       ELSE thr' = [thr EXCEPT ![t].pc = "all_loop"]
    /\ UNCHANGED <<tts_available, tts_model, loads, loadFailed>>
    /\ UNCHANGED engOthers

\* synthesize_all, lines 215-222: the next segment, or the return.
synthesize_all_loop(t) ==
    /\ thr[t].pc = "all_loop"
    /\ IF thr[t].left = 0
       THEN EndCall(t, "ok")
       ELSE thr' = [thr EXCEPT ![t].pc = "seg_require"]
    /\ UNCHANGED <<tts_available, tts_model, loads, loadFailed>>
    /\ UNCHANGED engOthers

\* synthesize_segment, lines 138-155: _require_tts, output directory, voice.
synthesize_segment_begin(t) ==
    /\ thr[t].pc = "seg_require"
    /\ IF require_tts_raises(tts_available)
       THEN EndCall(t, "TTSUnavailableError")
       ELSE thr' = [thr EXCEPT ![t].pc = "gm_require"]
    /\ UNCHANGED <<tts_available, tts_model, loads, loadFailed>>
    /\ UNCHANGED engOthers

\* _get_model, line 64.
get_model_require(t) ==
    /\ thr[t].pc = "gm_require"
    /\ IF require_tts_raises(tts_available)
       THEN EndCall(t, "TTSUnavailableError")
       ELSE thr' = [thr EXCEPT ![t].pc = "gm_check"]
    /\ UNCHANGED <<tts_available, tts_model, loads, loadFailed>>
    /\ UNCHANGED engOthers

\* _get_model, line 66 and the return at line 119 when the model is cached.
get_model_check(t) ==
    /\ thr[t].pc = "gm_check"
    /\ IF tts_model = "None"
       THEN /\ thr' = [thr EXCEPT ![t].pc = "gm_load", ![t].tried = TRUE]
            /\ loads' = loads + 1
       ELSE /\ IF thr[t].entry = "_get_model"
               THEN EndCall(t, "ok")
               ELSE thr' = [thr EXCEPT ![t].pc = "seg_synth"]
            /\ UNCHANGED loads
    /\ UNCHANGED <<tts_available, tts_model, loadFailed>>
    /\ UNCHANGED engOthers

\* _get_model, lines 67-119: the load ends, with the model or an exception.
get_model_load(t) ==
    /\ thr[t].pc = "gm_load"
    /\ \E outcome \in LoadOutcomes :
         IF outcome = "ok"
         THEN /\ tts_model' = "model"
              /\ IF thr[t].entry = "_get_model"
                 THEN EndCall(t, "ok")
                 ELSE thr' = [thr EXCEPT ![t].pc = "seg_synth"]
              /\ UNCHANGED <<tts_available, loadFailed>>
         ELSE /\ tts_available' = FlagAfterLoadFailure(outcome)
              /\ loadFailed' = TRUE
              /\ EndCall(t, "TTSUnavailableError")
              /\ UNCHANGED tts_model
    /\ UNCHANGED loads
    /\ UNCHANGED engOthers

\* synthesize_segment, lines 157-174: reference check and tts_to_file.
synthesize_segment_finish(t) ==
    /\ thr[t].pc = "seg_synth"
    /\ \E outcome \in {"ok", "FileNotFoundError", "synthesis error"} :
         IF outcome # "ok" THEN EndCall(t, outcome)
         ELSE IF thr[t].entry = "synthesize_all"
              THEN thr' = [thr EXCEPT ![t].pc = "all_loop", ![t].left = @ - 1]
              ELSE EndCall(t, "ok")
    /\ UNCHANGED <<tts_available, tts_model, loads, loadFailed>>
    /\ UNCHANGED engOthers

EngNext ==
    \E t \in Threads :
        \/ call_engine(t)
        \/ synthesize_all_begin(t)
        \/ synthesize_all_loop(t)
        \/ synthesize_segment_begin(t)
        \/ get_model_require(t)
        \/ get_model_check(t)
        \/ get_model_load(t)
        \/ synthesize_segment_finish(t)

EngParked ==
    /\ tts_available = TRUE
    /\ tts_model = "None"
    /\ thr = <<>>
    /\ loads = 0
    /\ loadFailed = FALSE

----------------------------------------------------------------------------
(* The job API (api/routes.py): request handlers on the event loop and     *)
(* background tasks in the threadpool, over the job store and the disk.    *)

\* Jobs the clients create, background tasks they start, segments per script.
MaxJobs == 2
MaxTasks == 2
MaxApiSegments == 1

JobIds == 1..MaxJobs
TaskIds == 1..MaxTasks

\* str(uuid.uuid4()): one distinct string per job.
JobIdStr(j) == "job-" \o ToString(j)

\* dict.update(upd), and a fresh dict.
Update(d, upd) ==
    [k \in DOMAIN d \cup DOMAIN upd |-> IF k \in DOMAIN upd THEN upd[k] ELSE d[k]]

\* Paths are sequences of components.
base_dir == <<"output", "audio", "segments">>

Under(p, d) == Len(d) <= Len(p) /\ SubSeq(p, 1, Len(d)) = d

\* Path.mkdir(parents=True, exist_ok=True), shutil.rmtree.
Mkdir(files, p) == files \cup {SubSeq(p, 1, k) : k \in 1..Len(p)}
Rmtree(files, d) == {p \in files : ~Under(p, d)}

\* synthesize_all: run_dir = base_dir / run_id.
RunDir(run_id) == Append(base_dir, run_id)

\* Variant: synthesize_segment falls back to the shared default directory.
SegmentOutputDirDefault(run_dir) == base_dir

\* The output_dir synthesize_all passes to synthesize_segment.
SegmentOutputDir(run_dir) == run_dir

\* synthesize_segment: output_dir / f"segment_{index:04d}_{speaker}.wav".
SegmentFile(output_dir, seg) ==
    Append(output_dir, "segment_" \o ToString(seg.index) \o "_" \o seg.speaker \o ".wav")

\* The turns parse_dialogue returns, n of them.
SegmentsOf(n) ==
    [i \in 1..n |-> [index |-> i - 1,
                     speaker |-> IF i % 2 = 1 THEN "HOST_A" ELSE "HOST_B"]]

\* A request body: each of url, markdown, text is given ("x") or not ("").
Inputs == [url : {"", "x"}, markdown : {"", "x"}, text : {"", "x"}]

\* _ingest_content: the branch taken; "none" raises HTTPException(400).
IngestBranch(input) ==
    IF input.url # "" THEN "url"
    ELSE IF input.markdown # "" THEN "markdown"
    ELSE IF input.text # "" THEN "text"
    ELSE "none"

NoContent(input) == input.url = "" /\ input.markdown = "" /\ input.text = ""

\* run_pipeline: the graph run to its end on four LLM replies.
run_pipeline(r1, r2, r3, r4) ==
    LET s1 == Merge(initial_state, GenerateUpdate(initial_state, generate_script(r1)))
    IN IF AfterGenerate(s1) = "END" THEN s1
       ELSE LET s2 == Merge(s1, AccuracyUpdate(s1, check_accuracy(r2)))
                s3 == Merge(s2, StorytellingUpdate(s2, enhance_storytelling(r3)))
            IN Merge(s3, EngagementUpdate(s3, optimize_engagement(r4)))

\* The LLM replies the API specification enumerates.
ApiReplies ==
    {[kind |-> "content", content |-> <<"a">>], [kind |-> "raise", content |-> <<>>]}

\* result.get("final_script", result.get("raw_script", ""))
FinalScriptOf(result) == Get(result, "final_script", Get(result, "raw_script", <<>>))

\* not final_script or not final_script.strip()
BlankScript(script) == ~Truthy(script) \/ ~Truthy(strip(script))

\* round(lo + span * (done / total), 2), in percent.
SegmentProgress(lo, span, done, total) ==
    (2 * (lo * total + span * done) + total) \div (2 * total)

NoInput == [url |-> "", markdown |-> "", text |-> ""]
\* A task's local variable result before run_pipeline has returned.
NoResult == [errors |-> <<>>]
NoTask == [kind |-> "none", job |-> 0, pc |-> "", i |-> 0, segs |-> <<>>, input |-> NoInput, result |-> NoResult]
DoneTask == [kind |-> "done", job |-> 0, pc |-> "", i |-> 0, segs |-> <<>>, input |-> NoInput, result |-> NoResult]
NoResponse == [endpoint |-> "", empty |-> FALSE, code |-> 0, status |-> ""]

JobOf(t) == tasks[t].job
RunIdOf(t) == JobIdStr(tasks[t].job)

NextJob == Cardinality(DOMAIN jobs) + 1
FreeTasks == {t \in TaskIds : tasks[t].kind = "none"}
NextTask == CHOOSE t \in FreeTasks : \A u \in FreeTasks : t <= u

\* background_tasks.add_task
AddTask(task) == tasks' = [tasks EXCEPT ![NextTask] = task]

SetJob(j, d) == jobs' = (j :> d) @@ jobs

\* Variant: the except branch records the error but leaves the status.
FailedStatusKept(job, msg) ==
    Update(job, [errors |-> Get(job, "errors", <<>>) \o <<msg>>])

\* The job dict after a task's except branch: FAILED, the error appended.
Failed(job, msg) ==
    Update(job, [status |-> "failed", errors |-> Get(job, "errors", <<>>) \o <<msg>>])

\* A background task ending in its except branch.
FailJob(t, msg) ==
    /\ SetJob(JobOf(t), Failed(jobs[JobOf(t)], msg))
    /\ tasks' = [tasks EXCEPT ![t] = DoneTask]

Logged(run, op, path) == [run |-> run, op |-> op, path |-> path]

ApiInit ==
    /\ jobs = <<>>
    /\ tasks = [t \in TaskIds |-> NoTask]
    /\ fs = Mkdir({}, base_dir)
    /\ fsLog = {}
    /\ resp = NoResponse

\* POST /upload-blog
upload_blog ==
    /\ NextJob \in JobIds
    /\ \E input \in Inputs, outcome \in {"ok", "error"} :
         IF IngestBranch(input) = "none"
         THEN /\ SetJob(NextJob, [status |-> "ingesting", progress |-> 10])
              /\ resp' = [endpoint |-> "upload-blog", empty |-> NoContent(input),
                          code |-> 400, status |-> "error"]
         ELSE IF outcome = "error"
         THEN /\ SetJob(NextJob, [status |-> "failed", error |-> "ingestion failed"])
              /\ resp' = [endpoint |-> "upload-blog", empty |-> NoContent(input),
                          code |-> 500, status |-> "error"]
         ELSE /\ SetJob(NextJob, [status |-> "pending", progress |-> 100,
                                  blog |-> TRUE, collection_name |-> "blog"])
              /\ resp' = [endpoint |-> "upload-blog", empty |-> NoContent(input),
                          code |-> 200, status |-> "ingested"]
    /\ UNCHANGED <<tasks, fs, fsLog>>
    /\ UNCHANGED apiOthers

\* POST /generate-script
generate_script_route ==
    /\ FreeTasks # {}
    /\ \E j \in DOMAIN jobs :
         /\ "blog" \in DOMAIN jobs[j]
         /\ SetJob(j, Update(jobs[j], [status |-> "generating_script", progress |-> 20]))
         /\ AddTask([kind |-> "script", job |-> j, pc |-> "run", i |-> 0, segs |-> <<>>,
                     input |-> NoInput, result |-> NoResult])
    /\ UNCHANGED <<fs, fsLog, resp>>
    /\ UNCHANGED apiOthers

\* POST /generate-audio
generate_audio ==
    /\ FreeTasks # {}
    /\ \E j \in DOMAIN jobs :
         /\ "segments" \in DOMAIN jobs[j]
         /\ SetJob(j, Update(jobs[j], [status |-> "synthesizing", progress |-> 60]))
         /\ AddTask([kind |-> "synth", job |-> j, pc |-> "start", i |-> 0, segs |-> <<>>,
                     input |-> NoInput, result |-> NoResult])
    /\ UNCHANGED <<fs, fsLog, resp>>
    /\ UNCHANGED apiOthers

\* POST /generate-podcast
generate_podcast ==
    /\ NextJob \in JobIds
    /\ FreeTasks # {}
    /\ \E input \in Inputs :
         /\ SetJob(NextJob, [status |-> "ingesting", progress |-> 0])
         /\ AddTask([kind |-> "full", job |-> NextJob, pc |-> "ingest", i |-> 0,
                     segs |-> <<>>, input |-> input, result |-> NoResult])
         /\ resp' = [endpoint |-> "generate-podcast", empty |-> NoContent(input),
                     code |-> 200, status |-> "started"]
    /\ UNCHANGED <<fs, fsLog>>
    /\ UNCHANGED apiOthers


\* What a script step stores once run_pipeline gave a non-blank final script.
ScriptKeys(result, n) ==
    [script |-> FinalScriptOf(result), segments |-> SegmentsOf(n),
     pipeline_result |-> result]

\* Background task _generate_script_task, lines 244-253: run_pipeline returns
\* its result or raises.
script_task_run_pipeline(t) ==
    /\ tasks[t].kind = "script"
    /\ tasks[t].pc = "run"
    /\ \E r1 \in ApiReplies, r2 \in ApiReplies, r3 \in ApiReplies, r4 \in ApiReplies,
          outcome \in {"ok", "error"} :
         IF outcome = "error"
         THEN FailJob(t, "script task error")
         ELSE /\ tasks' = [tasks EXCEPT ![t].pc = "store",
                                        ![t].result = run_pipeline(r1, r2, r3, r4)]
              /\ UNCHANGED jobs
    /\ UNCHANGED <<fs, fsLog, resp>>
    /\ UNCHANGED apiOthers

\* Variant: a result with entries in errors is failed like a blank script.
ScriptRejectedOnErrors(result) ==
    BlankScript(FinalScriptOf(result)) \/ Get(result, "errors", <<>>) # <<>>

\* Line 257: not final_script or not final_script.strip()
ScriptRejected(result) == BlankScript(FinalScriptOf(result))

\* Background task _generate_script_task, lines 255-286: the result is
\* validated, parsed and stored.
generate_script_task(t) ==
    /\ tasks[t].kind = "script"
    /\ tasks[t].pc = "store"
    /\ \E n \in 0..MaxApiSegments, outcome \in {"ok", "error"} :
         LET j == JobOf(t)
             result == tasks[t].result
         IN IF ScriptRejected(result)
            THEN SetJob(j, Failed(jobs[j], "Script generation produced empty content"))
            ELSE IF outcome = "error"
            THEN SetJob(j, Failed(jobs[j], "script task error"))
            ELSE SetJob(j, Update(jobs[j],
                    [status |-> "enhancing_script", progress |-> 50,
                     raw_script |-> Get(result, "raw_script", <<>>)]
                        @@ ScriptKeys(result, n)))
    /\ tasks' = [tasks EXCEPT ![t] = DoneTask]
    /\ UNCHANGED <<fs, fsLog, resp>>
    /\ UNCHANGED apiOthers

\* Background task _full_pipeline, lines 336-346: ingestion.
full_pipeline_ingest(t) ==
    /\ tasks[t].kind = "full"
    /\ tasks[t].pc = "ingest"
    /\ \E outcome \in {"ok", "error"} :
         LET j == JobOf(t)
             started == Update(jobs[j], [status |-> "ingesting", progress |-> 10])
         IN IF IngestBranch(tasks[t].input) = "none"
            THEN /\ SetJob(j, Failed(started, "400: Provide one of: url, text, or markdown"))
                 /\ tasks' = [tasks EXCEPT ![t] = DoneTask]
            ELSE IF outcome = "error"
            THEN /\ SetJob(j, Failed(started, "ingestion failed"))
                 /\ tasks' = [tasks EXCEPT ![t] = DoneTask]
            ELSE /\ SetJob(j, Update(started,
                        [status |-> "generating_script", progress |-> 20,
                         blog |-> TRUE, collection_name |-> "blog"]))
                 /\ tasks' = [tasks EXCEPT ![t].pc = "pipeline"]
    /\ UNCHANGED <<fs, fsLog, resp>>
    /\ UNCHANGED apiOthers

\* Background task _full_pipeline, lines 347-374: the script.
full_pipeline_script(t) ==
    /\ tasks[t].kind = "full"
    /\ tasks[t].pc = "pipeline"
    /\ \E r1 \in ApiReplies, r2 \in ApiReplies, r3 \in ApiReplies, r4 \in ApiReplies,
          n \in 0..MaxApiSegments, outcome \in {"ok", "error"} :
         LET j == JobOf(t)
             result == run_pipeline(r1, r2, r3, r4)
         IN IF outcome = "error"
            THEN /\ SetJob(j, Failed(jobs[j], "script step error"))
                 /\ tasks' = [tasks EXCEPT ![t] = DoneTask]
            ELSE IF BlankScript(FinalScriptOf(result))
            THEN /\ SetJob(j, Failed(jobs[j], "500: Script generation produced empty content"))
                 /\ tasks' = [tasks EXCEPT ![t] = DoneTask]
            ELSE /\ SetJob(j, Update(jobs[j],
                        [status |-> "synthesizing", progress |-> 50]
                            @@ ScriptKeys(result, n)))
                 /\ tasks' = [tasks EXCEPT ![t].pc = "synth", ![t].i = 0,
                                           ![t].segs = SegmentsOf(n)]
    /\ UNCHANGED <<fs, fsLog, resp>>
    /\ UNCHANGED apiOthers

\* Background task _synthesize_audio, lines 291-293: the job's segments.
synthesize_audio_start(t) ==
    /\ tasks[t].kind = "synth"
    /\ tasks[t].pc = "start"
    /\ tasks' = [tasks EXCEPT ![t].pc = "synth", ![t].segs = jobs[JobOf(t)].segments]
    /\ UNCHANGED <<jobs, fs, fsLog, resp>>
    /\ UNCHANGED apiOthers

\* synthesize_all(segments, run_id=job_id), lines 201-213.
synthesize_all_enter(t) ==
    /\ tasks[t].kind \in {"synth", "full"}
    /\ tasks[t].pc = "synth"
    /\ \E available \in BOOLEAN :
         IF require_tts_raises(available)
         THEN /\ FailJob(t, "TTS unavailable")
              /\ UNCHANGED <<fs, fsLog>>
         ELSE /\ fs' = Mkdir(fs, RunDir(RunIdOf(t)))
              /\ fsLog' = fsLog \cup {Logged(RunIdOf(t), "mkdir", RunDir(RunIdOf(t)))}
              /\ tasks' = [tasks EXCEPT ![t].pc =
                              IF Len(tasks[t].segs) = 0 THEN "post" ELSE "seg"]
              /\ UNCHANGED jobs
    /\ UNCHANGED resp
    /\ UNCHANGED apiOthers

\* synthesize_segment(segment, run_dir), lines 138-145.
synthesize_segment_enter(t) ==
    /\ tasks[t].kind \in {"synth", "full"}
    /\ tasks[t].pc = "seg"
    /\ \E available \in BOOLEAN :
         IF require_tts_raises(available)
         THEN /\ FailJob(t, "TTS unavailable")
              /\ UNCHANGED <<fs, fsLog>>
         ELSE LET dir == SegmentOutputDir(RunDir(RunIdOf(t)))
              IN /\ fs' = Mkdir(fs, dir)
                 /\ fsLog' = fsLog \cup {Logged(RunIdOf(t), "mkdir", dir)}
                 /\ tasks' = [tasks EXCEPT ![t].pc = "tts"]
                 /\ UNCHANGED jobs
    /\ UNCHANGED resp
    /\ UNCHANGED apiOthers

\* synthesize_segment, lines 155-174, and the on_segment_done callback.
synthesize_segment_write(t) ==
    /\ tasks[t].kind \in {"synth", "full"}
    /\ tasks[t].pc = "tts"
    /\ \E outcome \in {"ok", "error"} :
         LET j == JobOf(t)
             dir == SegmentOutputDir(RunDir(RunIdOf(t)))
             file == SegmentFile(dir, tasks[t].segs[tasks[t].i + 1])
             total == Len(tasks[t].segs)
             done == tasks[t].i + 1
             pct == IF tasks[t].kind = "synth"
                    THEN SegmentProgress(60, 20, done, total)
                    ELSE SegmentProgress(50, 30, done, total)
         IN IF outcome = "error" \/ dir \notin fs
            THEN /\ FailJob(t, "synthesis failed")
                 /\ UNCHANGED <<fs, fsLog>>
            ELSE /\ fs' = fs \cup {file}
                 /\ fsLog' = fsLog \cup {Logged(RunIdOf(t), "write", file)}
                 /\ SetJob(j, Update(jobs[j], [progress |-> pct]))
                 /\ tasks' = [tasks EXCEPT ![t].i = done,
                                 ![t].pc = IF done = total THEN "post" ELSE "seg"]
    /\ UNCHANGED resp
    /\ UNCHANGED apiOthers

\* After synthesize_all returned: POST_PROCESSING, progress 0.8.
synthesis_done(t) ==
    /\ tasks[t].kind \in {"synth", "full"}
    /\ tasks[t].pc = "post"
    /\ SetJob(JobOf(t), Update(jobs[JobOf(t)],
            [status |-> "post_processing", progress |-> 80]))
    /\ tasks' = [tasks EXCEPT ![t].pc = "process"]
    /\ UNCHANGED <<fs, fsLog, resp>>
    /\ UNCHANGED apiOthers

\* postprocess_all(audio_paths) and assemble_podcast(processed, segments, output_path).
postprocess_and_assemble(t) ==
    /\ tasks[t].kind \in {"synth", "full"}
    /\ tasks[t].pc = "process"
    /\ \E outcome \in {"ok", "error"} :
         LET dir == SegmentOutputDir(RunDir(RunIdOf(t)))
             paths == {SegmentFile(dir, tasks[t].segs[k]) : k \in 1..Len(tasks[t].segs)}
         IN IF outcome = "error" \/ ~(paths \subseteq fs)
            THEN FailJob(t, "post-processing or assembly failed")
            ELSE /\ tasks' = [tasks EXCEPT ![t].pc = "cleanup"]
                 /\ UNCHANGED jobs
    /\ UNCHANGED <<fs, fsLog, resp>>
    /\ UNCHANGED apiOthers

\* cleanup_run(run_dir)
cleanup_run(t) ==
    /\ tasks[t].kind \in {"synth", "full"}
    /\ tasks[t].pc = "cleanup"
    /\ LET run_dir == RunDir(RunIdOf(t))
       IN IF run_dir \in fs
          THEN /\ fs' = Rmtree(fs, run_dir)
               /\ fsLog' = fsLog \cup {Logged(RunIdOf(t), "rmtree", run_dir)}
          ELSE UNCHANGED <<fs, fsLog>>
    /\ tasks' = [tasks EXCEPT ![t].pc = "complete"]
    /\ UNCHANGED <<jobs, resp>>
    /\ UNCHANGED apiOthers

\* The final update: COMPLETED, progress 1.0, audio_file.
job_completed(t) ==
    /\ tasks[t].kind \in {"synth", "full"}
    /\ tasks[t].pc = "complete"
    /\ SetJob(JobOf(t), Update(jobs[JobOf(t)],
            [status |-> "completed", progress |-> 100, audio_file |-> TRUE]))
    /\ tasks' = [tasks EXCEPT ![t] = DoneTask]
    /\ UNCHANGED <<fs, fsLog, resp>>
    /\ UNCHANGED apiOthers

\* GET /job/{job_id}/script for a job whose script is stored.
get_job_script(job) ==
    [script |-> job.script,
     segment_count |-> Len(Get(job, "segments", <<>>)),
     raw_script |-> Get(job, "raw_script", <<>>),
     errors |-> Get(Get(job, "pipeline_result", [errors |-> <<>>]), "errors", <<>>)]

ApiNext ==
    \/ upload_blog
    \/ generate_script_route
    \/ generate_audio
    \/ generate_podcast
    \/ \E t \in TaskIds :
        \/ script_task_run_pipeline(t)
        \/ generate_script_task(t)
        \/ full_pipeline_ingest(t)
        \/ full_pipeline_script(t)
        \/ synthesize_audio_start(t)
        \/ synthesize_all_enter(t)
        \/ synthesize_segment_enter(t)
        \/ synthesize_segment_write(t)
        \/ synthesis_done(t)
        \/ postprocess_and_assemble(t)
        \/ cleanup_run(t)
        \/ job_completed(t)

ApiParked ==
    /\ jobs = <<>>
    /\ tasks = <<>>
    /\ fs = {}
    /\ fsLog = {}
    /\ resp = NoResponse

----------------------------------------------------------------------------
(* The chunker (ingestion/chunker.py). A text is a sequence of items: words *)
(* (each with its own id, and a mark when it ends a sentence), single       *)
(* whitespace and paragraph breaks. A token is counted per word.            *)

\* Paragraphs per input, sentences per paragraph, words per sentence.
MaxParas == 3

Word(id, end) == [k |-> "w", id |-> id, end |-> end]
SP == [k |-> "sp", id |-> 0, end |-> FALSE]      \* " " or "\n"
PB == [k |-> "pb", id |-> 0, end |-> FALSE]      \* "\n\n"

IsSpace(x) == x.k \in {"sp", "pb"}

\* str.split(): the words of a text.
SplitWords(text) == SelectSeq(text, LAMBDA x : ~IsSpace(x))

\* count_tokens
count_tokens(text) == Len(SplitWords(text))

\* str.strip() on items.
RECURSIVE LStripItems(_)
LStripItems(text) ==
    IF text # <<>> /\ IsSpace(Head(text)) THEN LStripItems(Tail(text)) ELSE text

RECURSIVE RStripItems(_)
RStripItems(text) ==
    IF text # <<>> /\ IsSpace(text[Len(text)])
    THEN RStripItems(SubSeq(text, 1, Len(text) - 1))
    ELSE text

StripItems(text) == LStripItems(RStripItems(text))

\* " ".join(words)
RECURSIVE JoinWords(_)
JoinWords(words) ==
    IF words = <<>> THEN <<>>
    ELSE IF Len(words) = 1 THEN <<words[1]>>
    ELSE <<words[1], SP>> \o JoinWords(Tail(words))

\* text.split("\n\n"): the pieces between paragraph breaks.
RECURSIVE SplitOnBreaks(_, _)
SplitOnBreaks(text, piece) ==
    IF text = <<>> THEN <<piece>>
    ELSE IF Head(text).k = "pb" THEN <<piece>> \o SplitOnBreaks(Tail(text), <<>>)
    ELSE SplitOnBreaks(Tail(text), Append(piece, Head(text)))

\* _split_paragraphs
split_paragraphs(text) ==
    LET paras == SplitOnBreaks(text, <<>>)
        stripped == [i \in 1..Len(paras) |-> StripItems(paras[i])]
    IN SelectSeq(stripped, LAMBDA q : q # <<>>)

\* re.split(r"(?<=[.!?])\s+", text): cut at whitespace that follows a
\* sentence-ending word.
RECURSIVE SplitSentences(_, _)
SplitSentences(text, piece) ==
    IF text = <<>> THEN <<piece>>
    ELSE IF IsSpace(Head(text)) /\ piece # <<>> /\ piece[Len(piece)].k = "w"
            /\ piece[Len(piece)].end
    THEN <<piece>> \o SplitSentences(LStripItems(text), <<>>)
    ELSE SplitSentences(Tail(text), Append(piece, Head(text)))

\* int(overlap_tokens / 1.3)
ApproxWords(overlap_tokens) == (10 * overlap_tokens) \div 13

\* words[-n:] (for n = 0 Python gives the whole list).
LastWords(words, n) ==
    IF n = 0 THEN words ELSE SubSeq(words, Len(words) - n + 1, Len(words))

\* _get_overlap_text
get_overlap_text(text, overlap_tokens) ==
    LET words == SplitWords(text)
        approx_words == ApproxWords(overlap_tokens)
    IN IF approx_words >= Len(words) THEN text
       ELSE JoinWords(LastWords(words, approx_words))

\* _make_chunk
make_chunk(text, index) ==
    [text |-> text, index |-> index, token_count |-> count_tokens(text)]

\* current += sep + piece if current else piece
Extend(current, sep, piece) ==
    IF current # <<>> THEN current \o <<sep>> \o piece ELSE piece

\* The loop state of chunk_text and of _split_large_paragraph.
LoopState(cs, text, tokens) == [chunks |-> cs, current |-> text, current_tokens |-> tokens]

\* Flush: append the stripped buffer as a chunk, keep its overlap as the buffer.
Flush(st, index, chunk_overlap) ==
    LET kept == get_overlap_text(st.current, chunk_overlap)
    IN LoopState(Append(st.chunks, make_chunk(StripItems(st.current), index)),
                 kept, count_tokens(kept))

\* Variant: sub-chunk indices restart at the number of sub-chunks.
SubChunkIndexRestart(start_index, emitted) == emitted

\* start_index + len(chunks)
SubChunkIndex(start_index, emitted) == start_index + emitted

\* _split_large_paragraph: the for loop over the sentences.
RECURSIVE SplitLoop(_, _, _, _, _, _)
SplitLoop(sentences, i, chunk_size, chunk_overlap, start_index, st) ==
    IF i > Len(sentences) THEN st
    ELSE LET sent == sentences[i]
             sent_tokens == count_tokens(sent)
             st1 == IF st.current_tokens + sent_tokens > chunk_size
                       /\ StripItems(st.current) # <<>>
                    THEN Flush(st, SubChunkIndex(start_index, Len(st.chunks)),
                               chunk_overlap)
                    ELSE st
             st2 == LoopState(st1.chunks, Extend(st1.current, SP, sent),
                              st1.current_tokens + sent_tokens)
         IN SplitLoop(sentences, i + 1, chunk_size, chunk_overlap, start_index, st2)

\* _split_large_paragraph
split_large_paragraph(text, chunk_size, chunk_overlap, start_index) ==
    LET st == SplitLoop(SplitSentences(text, <<>>), 1, chunk_size, chunk_overlap,
                        start_index, LoopState(<<>>, <<>>, 0))
    IN IF StripItems(st.current) # <<>>
       THEN Append(st.chunks, make_chunk(StripItems(st.current),
                                         SubChunkIndex(start_index, Len(st.chunks))))
       ELSE st.chunks

\* chunk_text, lines 35-46: a paragraph larger than chunk_size.
LargeParagraph(para, chunk_size, chunk_overlap, st) ==
    LET st1 == IF StripItems(st.current) # <<>>
               THEN Flush(st, Len(st.chunks), chunk_overlap)
               ELSE st
        cs == st1.chunks \o split_large_paragraph(para, chunk_size, chunk_overlap,
                                                   Len(st1.chunks))
        kept == IF cs # <<>> THEN get_overlap_text(cs[Len(cs)].text, chunk_overlap)
                ELSE <<>>
    IN LoopState(cs, kept, count_tokens(kept))

\* Variant: the buffer is flushed before every paragraph.
FittingParagraphAlwaysFlush(para, chunk_size, chunk_overlap, st) ==
    LET st1 == IF StripItems(st.current) # <<>>
               THEN Flush(st, Len(st.chunks), chunk_overlap)
               ELSE st
    IN LoopState(st1.chunks, Extend(st1.current, PB, para),
                 st1.current_tokens + count_tokens(para))

\* chunk_text, lines 48-55: a paragraph that fits.
FittingParagraph(para, chunk_size, chunk_overlap, st) ==
    LET para_tokens == count_tokens(para)
        st1 == IF st.current_tokens + para_tokens > chunk_size
                  /\ StripItems(st.current) # <<>>
               THEN Flush(st, Len(st.chunks), chunk_overlap)
               ELSE st
    IN LoopState(st1.chunks, Extend(st1.current, PB, para),
                 st1.current_tokens + para_tokens)

\* chunk_text: the for loop over the paragraphs.
RECURSIVE ChunkLoop(_, _, _, _, _)
ChunkLoop(paragraphs, i, chunk_size, chunk_overlap, st) ==
    IF i > Len(paragraphs) THEN st
    ELSE ChunkLoop(paragraphs, i + 1, chunk_size, chunk_overlap,
            IF count_tokens(paragraphs[i]) > chunk_size
            THEN LargeParagraph(paragraphs[i], chunk_size, chunk_overlap, st)
            ELSE FittingParagraph(paragraphs[i], chunk_size, chunk_overlap, st))

\* chunk_text
ChunkText(text, chunk_size, chunk_overlap) ==
    LET st == ChunkLoop(split_paragraphs(text), 1, chunk_size, chunk_overlap,
                        LoopState(<<>>, <<>>, 0))
    IN IF StripItems(st.current) # <<>>
       THEN Append(st.chunks, make_chunk(StripItems(st.current), Len(st.chunks)))
       ELSE st.chunks

\* A sentence of n words, the last one ending it; ids from first_id.
Sentence(first_id, n) ==
    JoinWords([i \in 1..n |-> Word(first_id + i - 1, i = n)])

RECURSIVE SumLens(_)
SumLens(lens) == IF lens = <<>> THEN 0 ELSE Head(lens) + SumLens(Tail(lens))

\* A paragraph: sentences of the given lengths, separated by one space.
RECURSIVE Paragraph(_, _)
Paragraph(first_id, lens) ==
    IF Len(lens) = 1 THEN Sentence(first_id, lens[1])
    ELSE Sentence(first_id, lens[1]) \o <<SP>>
            \o Paragraph(first_id + lens[1], Tail(lens))

\* A document: paragraphs of the given shapes, separated by a blank line.
RECURSIVE Document(_, _)
Document(first_id, paras) ==
    IF Len(paras) = 1 THEN Paragraph(first_id, paras[1])
    ELSE Paragraph(first_id, paras[1]) \o <<PB>>
            \o Document(first_id + SumLens(paras[1]), Tail(paras))

NonEmptySeqsUpTo(S, n) == UNION {[1..k -> S] : k \in 1..n}

\* Paragraphs of one or two sentences of one or two words.
ParagraphShapes == NonEmptySeqsUpTo({1, 2}, 2)
DocumentShapes(paras) == NonEmptySeqsUpTo(ParagraphShapes, paras)

\* The texts given to chunk_text: documents of up to paras paragraphs, the
\* empty and blank strings.
ChunkTexts(paras) ==
    {Document(1, d) : d \in DocumentShapes(paras)}
        \cup {<<>>, <<SP>>, <<SP, PB, SP>>,
              <<SP, Word(1, TRUE), SP, PB, SP, Word(2, TRUE), SP>>}

ChunkSizes == {1, 2, 3}
ChunkOverlaps == {0, 1, 2, 3}

ChunkInit ==
    /\ chunkArgs \in [text : ChunkTexts(MaxParas), chunk_size : ChunkSizes,
                      chunk_overlap : ChunkOverlaps]
    /\ chunks = <<>>
    /\ chunkPc = "call"

chunk_text ==
    /\ chunkPc = "call"
    /\ chunks' = ChunkText(chunkArgs.text, chunkArgs.chunk_size, chunkArgs.chunk_overlap)
    /\ chunkPc' = "returned"
    /\ UNCHANGED chunkArgs
    /\ UNCHANGED chunkOthers

ChunkNext == chunk_text

ChunkParked ==
    /\ chunkArgs = <<>>
    /\ chunks = <<>>
    /\ chunkPc = "off"

----------------------------------------------------------------------------
(* The dialogue parser (tts/dialogue_parser.py). A script is a sequence of  *)
(* pieces: runs of word characters (a name repeated to a length) and single *)
(* characters (space, newline, sentence end, brackets, colon, star).        *)

\* A run of n word characters (\w): a name of n characters, or one character
\* repeated n times; and one character of another class.
Run(id, n) == [k |-> "w", id |-> id, n |-> n]
Chr(c) == [k |-> c, id |-> "", n |-> 1]

IsWordRun(x) == x.k = "w"                   \* \w
IsWhite(x) == x.k \in {" ", "\n"}          \* \s
IsSentenceEnd(x) == x.k = "."               \* [.!?]

\* len(text)
RECURSIVE StrLen(_)
StrLen(text) == IF text = <<>> THEN 0 ELSE Head(text).n + StrLen(Tail(text))

\* text[from:] as pieces
From(text, pos) == SubSeq(text, pos, Len(text))

\* The character classes \s, \w and \*.
White == {" ", "\n"}
WordRun == {"w"}
Star == {"*"}

\* The first position at or after pos whose piece is not of the class.
RECURSIVE SkipWhile(_, _, _)
SkipWhile(text, pos, class) ==
    IF pos <= Len(text) /\ text[pos].k \in class
    THEN SkipWhile(text, pos + 1, class)
    ELSE pos

\* str.strip(), str.lstrip("*")
RECURSIVE LStripWhite(_)
LStripWhite(text) ==
    IF text # <<>> /\ IsWhite(Head(text)) THEN LStripWhite(Tail(text)) ELSE text

RECURSIVE RStripWhite(_)
RStripWhite(text) ==
    IF text # <<>> /\ IsWhite(text[Len(text)])
    THEN RStripWhite(SubSeq(text, 1, Len(text) - 1))
    ELSE text

StripWhite(text) == LStripWhite(RStripWhite(text))

RECURSIVE LStripStars(_)
LStripStars(text) ==
    IF text # <<>> /\ Head(text).k = "*" THEN LStripStars(Tail(text)) ELSE text

\* The name a maximal run of word characters spells.
RECURSIVE RunName(_)
RunName(run) == IF run = <<>> THEN "" ELSE Head(run).id \o RunName(Tail(run))

\* ^ with re.MULTILINE
AtLineStart(text, pos) == pos = 1 \/ text[pos - 1].k = "\n"

NoMatch == [ok |-> FALSE, speaker |-> "", start |-> 0, end |-> 0]

\* ^(HOST_[AB])\s*: at pos; end is the position after the match.
MatchHostMarker(text, pos) ==
    IF ~(AtLineStart(text, pos) /\ IsWordRun(text[pos])
            /\ text[pos].id \in {"HOST_A", "HOST_B"})
    THEN NoMatch
    ELSE LET colon == SkipWhile(text, pos + 1, White)
         IN IF colon <= Len(text) /\ text[colon].k = ":"
            THEN [ok |-> TRUE, speaker |-> text[pos].id, start |-> pos, end |-> colon + 1]
            ELSE NoMatch

\* ^\*{0,2}(\w+)\*{0,2}\s*:\s* at pos.
MatchDialogueMarker(text, pos) ==
    IF ~AtLineStart(text, pos) THEN NoMatch
    ELSE LET name == SkipWhile(text, pos, Star)
             after == SkipWhile(text, name, WordRun)
             stars == SkipWhile(text, after, Star)
             colon == SkipWhile(text, stars, White)
         IN IF name - pos <= 2 /\ after > name /\ stars - after <= 2
               /\ colon <= Len(text) /\ text[colon].k = ":"
            THEN [ok |-> TRUE, speaker |-> RunName(SubSeq(text, name, after - 1)),
                  start |-> pos, end |-> SkipWhile(text, colon + 1, White)]
            ELSE NoMatch

MatchMarker(text, pos, pattern) ==
    IF pattern = "host" THEN MatchHostMarker(text, pos)
    ELSE MatchDialogueMarker(text, pos)

\* list(re.finditer(pattern, script)), searching from pos.
RECURSIVE FindMarkers(_, _, _)
FindMarkers(text, pos, pattern) ==
    IF pos > Len(text) THEN <<>>
    ELSE LET m == MatchMarker(text, pos, pattern)
         IN IF m.ok THEN <<m>> \o FindMarkers(text, m.end, pattern)
            ELSE FindMarkers(text, pos + 1, pattern)

\* _split_into_turns
split_into_turns(script, pattern) ==
    LET markers == FindMarkers(script, 1, pattern)
        TurnText(i) ==
            LET end == IF i + 1 <= Len(markers) THEN markers[i + 1].start - 1
                       ELSE Len(script)
            IN StripWhite(LStripStars(StripWhite(
                    SubSeq(script, markers[i].end, end))))
        all == [i \in 1..Len(markers) |->
                    [speaker |-> markers[i].speaker, text |-> TurnText(i)]]
    IN SelectSeq(all, LAMBDA t : t.text # <<>>)

\* _MAX_SEGMENT_CHARS
MAX_SEGMENT_CHARS == 500

NoCue == [ok |-> FALSE, name |-> <<>>, end |-> 0]

\* _CUE_PATTERN \[(\w+(?:\s+\w+)?)\] at pos; end is the position after "]".
MatchCue(text, pos) ==
    IF text[pos].k # "[" THEN NoCue
    ELSE LET w1 == SkipWhile(text, pos + 1, WordRun)
             ws == SkipWhile(text, w1, White)
             w2 == SkipWhile(text, ws, WordRun)
             Closes(at) == at <= Len(text) /\ text[at].k = "]"
         IN IF w1 = pos + 1 THEN NoCue
            ELSE IF Closes(w1)
            THEN [ok |-> TRUE, name |-> SubSeq(text, pos + 1, w1 - 1), end |-> w1 + 1]
            ELSE IF ws > w1 /\ w2 > ws /\ Closes(w2)
            THEN [ok |-> TRUE, name |-> SubSeq(text, pos + 1, w2 - 1), end |-> w2 + 1]
            ELSE NoCue

\* _CUE_PATTERN.findall(text)
RECURSIVE FindCues(_, _)
FindCues(text, pos) ==
    IF pos > Len(text) THEN <<>>
    ELSE LET m == MatchCue(text, pos)
         IN IF m.ok THEN <<m.name>> \o FindCues(text, m.end)
            ELSE FindCues(text, pos + 1)

\* _CUE_PATTERN.sub("", text)
RECURSIVE RemoveCues(_, _)
RemoveCues(text, pos) ==
    IF pos > Len(text) THEN <<>>
    ELSE LET m == MatchCue(text, pos)
         IN IF m.ok THEN RemoveCues(text, m.end)
            ELSE <<text[pos]>> \o RemoveCues(text, pos + 1)

\* re.sub(r"\s{2,}", " ", text)
RECURSIVE CollapseWhite(_, _)
CollapseWhite(text, pos) ==
    IF pos > Len(text) THEN <<>>
    ELSE LET end == SkipWhile(text, pos, White)
         IN IF end - pos >= 2 THEN <<Chr(" ")>> \o CollapseWhite(text, end)
            ELSE <<text[pos]>> \o CollapseWhite(text, pos + 1)

\* The cues and the cleaned text of one turn.
CleanText(text) == CollapseWhite(StripWhite(RemoveCues(text, 1)), 1)

\* re.split(r"(?<=[.!?])\s+", text)
RECURSIVE SplitAtSentenceEnds(_, _)
SplitAtSentenceEnds(text, piece) ==
    IF text = <<>> THEN <<piece>>
    ELSE IF IsWhite(Head(text)) /\ piece # <<>> /\ IsSentenceEnd(piece[Len(piece)])
    THEN <<piece>> \o SplitAtSentenceEnds(LStripWhite(text), <<>>)
    ELSE SplitAtSentenceEnds(Tail(text), Append(piece, Head(text)))

\* _split_long_segment: the for loop.
RECURSIVE SegmentLoop(_, _, _, _)
SegmentLoop(sentences, i, parts, current) ==
    IF i > Len(sentences) THEN [parts |-> parts, current |-> current]
    ELSE LET sent == sentences[i]
         IN IF StrLen(current) + StrLen(sent) > MAX_SEGMENT_CHARS /\ current # <<>>
            THEN SegmentLoop(sentences, i + 1, Append(parts, StripWhite(current)), sent)
            ELSE SegmentLoop(sentences, i + 1, parts,
                    IF current # <<>> THEN current \o <<Chr(" ")>> \o sent ELSE sent)

\* _split_long_segment
split_long_segment(text) ==
    LET st == SegmentLoop(SplitAtSentenceEnds(text, <<>>), 1, <<>>, <<>>)
    IN IF StripWhite(st.current) # <<>>
       THEN Append(st.parts, StripWhite(st.current))
       ELSE st.parts

SpeakerSegment(speaker, text, index, cues) ==
    [speaker |-> speaker, text |-> text, index |-> index, cues |-> cues]

\* Variant: the index counts within the turn.
SegmentIndexWithinTurn(segs, j) == j - 1

\* index=len(segments): the position in the list being built (j is the
\* position within the turn, 1 for a turn emitted whole).
SegmentIndex(segs, j) == Len(segs)

\* The sub-turns of a long turn, appended to segs.
RECURSIVE AppendSubTurns(_, _, _, _, _)
AppendSubTurns(segs, speaker, sub_texts, j, cues) ==
    IF j > Len(sub_texts) THEN segs
    ELSE AppendSubTurns(
            Append(segs, SpeakerSegment(speaker, sub_texts[j], SegmentIndex(segs, j),
                                        IF j = 1 THEN cues ELSE <<>>)),
            speaker, sub_texts, j + 1, cues)

\* Variant: a long turn is emitted whole.
EmitTurnUnsplit(segs, speaker, text) ==
    LET cues == FindCues(text, 1)
        clean_text == CleanText(text)
    IN IF clean_text = <<>> THEN segs
       ELSE Append(segs, SpeakerSegment(speaker, clean_text, SegmentIndex(segs, 1), cues))

\* The body of the for loop of parse_script / parse_dialogue for one turn
\* whose speaker is known.
EmitTurn(segs, speaker, text) ==
    LET cues == FindCues(text, 1)
        clean_text == CleanText(text)
    IN IF clean_text = <<>> THEN segs
       ELSE IF StrLen(clean_text) > MAX_SEGMENT_CHARS
       THEN AppendSubTurns(segs, speaker, split_long_segment(clean_text), 1, cues)
       ELSE Append(segs, SpeakerSegment(speaker, clean_text, SegmentIndex(segs, 1), cues))

\* parse_script: the for loop.
RECURSIVE ScriptLoop(_, _, _)
ScriptLoop(turns, i, segs) ==
    IF i > Len(turns) THEN segs
    ELSE ScriptLoop(turns, i + 1,
            EmitTurn(segs, IF turns[i].speaker = "HOST_A" THEN "HOST_A" ELSE "HOST_B",
                     turns[i].text))

\* parse_script
ParseScript(script) == ScriptLoop(split_into_turns(script, "host"), 1, <<>>)

\* The default name map: the two personas' names and the canonical tags.
DefaultNameMap ==
    [Mike |-> "HOST_A", Sarah |-> "HOST_B", HOST_A |-> "HOST_A", HOST_B |-> "HOST_B"]

\* Variant: the loop ends at the first unknown speaker.
RECURSIVE DialogueLoopStopAtUnknown(_, _, _, _)
DialogueLoopStopAtUnknown(turns, i, name_map, segs) ==
    IF i > Len(turns) THEN segs
    ELSE IF turns[i].speaker \in DOMAIN name_map
    THEN DialogueLoopStopAtUnknown(turns, i + 1, name_map,
            EmitTurn(segs, name_map[turns[i].speaker], turns[i].text))
    ELSE segs

\* parse_dialogue: the for loop.
RECURSIVE DialogueLoop(_, _, _, _)
DialogueLoop(turns, i, name_map, segs) ==
    IF i > Len(turns) THEN segs
    ELSE DialogueLoop(turns, i + 1, name_map,
            IF turns[i].speaker \in DOMAIN name_map
            THEN EmitTurn(segs, name_map[turns[i].speaker], turns[i].text)
            ELSE segs)

\* parse_dialogue
ParseDialogue(script, name_map) ==
    DialogueLoop(split_into_turns(script, "dialogue"), 1, name_map, <<>>)

\* " ".join(f"[{c}]" for c in seg.cues)
RECURSIVE CuesStr(_)
CuesStr(cues) ==
    IF cues = <<>> THEN <<>>
    ELSE <<Chr("[")>> \o Head(cues) \o <<Chr("]")>>
            \o (IF Len(cues) > 1 THEN <<Chr(" ")>> ELSE <<>>) \o CuesStr(Tail(cues))

\* f"{seg.speaker.value}: {prefix}{seg.text}"
SegmentLine(seg) ==
    LET cues_str == CuesStr(seg.cues)
        prefix == IF cues_str # <<>> THEN cues_str \o <<Chr(" ")>> ELSE <<>>
    IN <<Run(seg.speaker, 6), Chr(":"), Chr(" ")>> \o prefix \o seg.text

\* segments_to_script: the lines joined by a blank line.
RECURSIVE segments_to_script(_)
segments_to_script(segs) ==
    IF segs = <<>> THEN <<>>
    ELSE SegmentLine(Head(segs))
            \o (IF Len(segs) > 1 THEN <<Chr("\n"), Chr("\n")>> ELSE <<>>)
            \o segments_to_script(Tail(segs))

\* Pieces in a cue-bearing body, sentences in a long body, turns in a script.
MaxBody == 6
MaxSentences == 3
MaxTurns == 3

\* "Label:" and "**Label:**"
PlainLabel(name, n) == <<Run(name, n), Chr(":")>>
BoldLabel(name, n) ==
    <<Chr("*"), Chr("*"), Run(name, n), Chr(":"), Chr("*"), Chr("*")>>

\* One turn on its own line.
TurnLine(label, body) == label \o <<Chr(" ")>> \o body

\* Bodies with brackets, words and spaces in every arrangement.
CuePieces == {Run("x", 1), Chr(" "), Chr("["), Chr("]")}
CueBodies(pieces) == NonEmptySeqsUpTo(CuePieces, pieces)

\* Bodies of sentences of 100, 200, 300 or 600 characters.
SentenceRuns == {99, 199, 299, 599}

RECURSIVE JoinSentences(_)
JoinSentences(lens) ==
    IF Len(lens) = 1 THEN <<Run("x", lens[1]), Chr(".")>>
    ELSE <<Run("x", lens[1]), Chr("."), Chr(" ")>> \o JoinSentences(Tail(lens))

LongBodies(sentences) ==
    {JoinSentences(l) : l \in NonEmptySeqsUpTo(SentenceRuns, sentences)}

\* Scripts of several turns: known and unknown labels, plain and bold, with
\* a short body, a body that is only a cue or a long body.
TurnLabels ==
    {PlainLabel("HOST_A", 6), PlainLabel("HOST_B", 6), BoldLabel("Mike", 4),
     PlainLabel("Sarah", 5), PlainLabel("Bob", 3)}

TurnBodies ==
    {<<Run("x", 1)>>, <<Chr("["), Run("y", 1), Chr("]")>>,
     JoinSentences(<<299, 299>>)}

TurnLines == {TurnLine(l, b) : l \in TurnLabels, b \in TurnBodies}

RECURSIVE JoinLines(_)
JoinLines(lines) ==
    IF Len(lines) = 1 THEN lines[1]
    ELSE lines[1] \o <<Chr("\n")>> \o JoinLines(Tail(lines))

TurnScripts(turns) == {JoinLines(t) : t \in NonEmptySeqsUpTo(TurnLines, turns)}

\* The empty script, a plain persona label and a turn without a body.
OtherScripts ==
    {<<>>,
     TurnLine(PlainLabel("Mike", 4), <<Run("x", 1)>>),
     JoinLines(<<TurnLine(PlainLabel("HOST_A", 6), <<>>),
                 TurnLine(PlainLabel("Sarah", 5), <<Run("x", 1)>>)>>)}

Scripts(pieces, sentences, turns) ==
    {TurnLine(PlainLabel("HOST_A", 6), b) : b \in CueBodies(pieces)}
        \cup {TurnLine(PlainLabel("HOST_B", 6), b) : b \in LongBodies(sentences)}
        \cup TurnScripts(turns)
        \cup OtherScripts

\* A caller-supplied name map.
CustomNameMap == [Bob |-> "HOST_A"]

ParseInit ==
    /\ \E script \in Scripts(MaxBody, MaxSentences, MaxTurns) :
          parseArgs \in
              [fn : {"parse_script"}, script : {script}, name_map : {DefaultNameMap}]
                \cup [fn : {"parse_dialogue"}, script : {script},
                      name_map : {DefaultNameMap, CustomNameMap}]
    /\ segments = <<>>
    /\ parsePc = "call"

parse_script ==
    /\ parsePc = "call"
    /\ parseArgs.fn = "parse_script"
    /\ segments' = ParseScript(parseArgs.script)
    /\ parsePc' = "returned"
    /\ UNCHANGED parseArgs
    /\ UNCHANGED parseOthers

parse_dialogue ==
    /\ parsePc = "call"
    /\ parseArgs.fn = "parse_dialogue"
    /\ segments' = ParseDialogue(parseArgs.script, parseArgs.name_map)
    /\ parsePc' = "returned"
    /\ UNCHANGED parseArgs
    /\ UNCHANGED parseOthers

ParseNext == parse_script \/ parse_dialogue

ParseParked ==
    /\ parseArgs = <<>>
    /\ segments = <<>>
    /\ parsePc = "off"

----------------------------------------------------------------------------
(* Specifications                                                          *)

InitPipeline == PipeInit /\ AsmParked /\ EngParked /\ ApiParked /\ ChunkParked /\ ParseParked
SpecPipeline == InitPipeline /\ [][PipeNext]_vars

InitAssemble == AsmInit /\ PipeParked /\ EngParked /\ ApiParked /\ ChunkParked /\ ParseParked
SpecAssemble == InitAssemble /\ [][AsmNext]_vars

InitEngine == EngInit /\ PipeParked /\ AsmParked /\ ApiParked /\ ChunkParked /\ ParseParked
SpecEngine == InitEngine /\ [][EngNext]_vars

InitChunk == ChunkInit /\ PipeParked /\ AsmParked /\ EngParked /\ ApiParked /\ ParseParked
SpecChunk == InitChunk /\ [][ChunkNext]_vars

InitParse ==
    ParseInit /\ PipeParked /\ AsmParked /\ EngParked /\ ApiParked /\ ChunkParked
SpecParse == InitParse /\ [][ParseNext]_vars

InitApi == ApiInit /\ PipeParked /\ AsmParked /\ EngParked /\ ChunkParked /\ ParseParked
SpecApi == InitApi /\ [][ApiNext]_vars

\* The threadpool runs every queued synthesis task, and every external call
\* it makes returns or raises: a synthesis task that can take a step
\* eventually takes one.
SynthStep(t) ==
    \/ synthesize_audio_start(t)
    \/ synthesize_all_enter(t)
    \/ synthesize_segment_enter(t)
    \/ synthesize_segment_write(t)
    \/ synthesis_done(t)
    \/ postprocess_and_assemble(t)
    \/ cleanup_run(t)
    \/ job_completed(t)

\* The job dict _generate_script_task leaves behind for an ingested blog once
\* run_pipeline gave a non-blank final script.
ScriptedJob(result, n) ==
    Update([status |-> "pending", progress |-> 100, blog |-> TRUE,
            collection_name |-> "blog"],
           [status |-> "enhancing_script", progress |-> 50,
            raw_script |-> Get(result, "raw_script", <<>>)] @@ ScriptKeys(result, n))

ScriptedJobs ==
    {ScriptedJob(run_pipeline(r1, r2, r3, r4), n) :
        r1 \in {[kind |-> "content", content |-> <<"a">>]},
        r2 \in {[kind |-> "content", content |-> <<"a">>]},
        r3 \in {[kind |-> "content", content |-> <<"a">>]},
        r4 \in ApiReplies,
        n \in 0..MaxApiSegments}

\* The synthesis stage on its own: jobs whose script is stored, the requests
\* that act on an existing job, and the background tasks.
SynthInit ==
    /\ \E k \in JobIds : jobs \in [1..k -> ScriptedJobs]
    /\ tasks = [t \in TaskIds |-> NoTask]
    /\ fs = Mkdir({}, base_dir)
    /\ fsLog = {}
    /\ resp = NoResponse

SynthNext ==
    \/ generate_script_route
    \/ generate_audio
    \/ \E t \in TaskIds :
        \/ script_task_run_pipeline(t)
        \/ generate_script_task(t)
        \/ synthesize_audio_start(t)
        \/ synthesize_all_enter(t)
        \/ synthesize_segment_enter(t)
        \/ synthesize_segment_write(t)
        \/ synthesis_done(t)
        \/ postprocess_and_assemble(t)
        \/ cleanup_run(t)
        \/ job_completed(t)

InitSynth == SynthInit /\ PipeParked /\ AsmParked /\ EngParked /\ ChunkParked /\ ParseParked
SpecSynthLive ==
    InitSynth /\ [][SynthNext]_vars /\ \A t \in TaskIds : WF_vars(SynthStep(t))

----------------------------------------------------------------------------
(* Pipeline properties                                                     *)

StageOrder == <<"generate_script", "accuracy_check", "storytelling", "engagement">>

OutputField(stage) ==
    CASE stage = "generate_script" -> "raw_script"
      [] stage = "accuracy_check" -> "accuracy_checked_script"
      [] stage = "storytelling" -> "enhanced_script"
      [] stage = "engagement" -> "final_script"

IsPrefix(s, t) == Len(s) <= Len(t) /\ SubSeq(t, 1, Len(s)) = s

GenerateFailed == Len(calls) >= 1 /\ ~calls[1].res.ok
GenerateSucceeded == Len(calls) >= 1 /\ calls[1].res.ok

\* The value returned by the last call that succeeded.
LastSuccessfulOutput ==
    LET good == {i \in 1..Len(calls) : calls[i].res.ok}
        last == CHOOSE i \in good : \A j \in good : j <= i
    IN calls[last].res.value

\* The error list that the failed calls, in call order, would give.
RECURSIVE FailureEntries(_)
FailureEntries(cs) ==
    IF cs = <<>> THEN <<>>
    ELSE LET c == Head(cs)
             label == CASE c.stage = "generate_script" -> "Script generation"
                        [] c.stage = "accuracy_check" -> "Accuracy check"
                        [] c.stage = "storytelling" -> "Storytelling"
                        [] c.stage = "engagement" -> "Engagement"
         IN (IF c.res.ok THEN <<>> ELSE <<ErrorEntry(label, c.res.exc)>>)
                \o FailureEntries(Tail(cs))

\* C1: when the Generate call raises (an empty or blank LLM reply included) the
\* run is at END with raw_script and final_script empty and errors non-empty,
\* and no Verify, Enhance or Polish call has been made.
C1_GenerateFailureAborts ==
    GenerateFailed =>
        /\ node = "END"
        /\ state.raw_script = <<>>
        /\ state.final_script = <<>>
        /\ state.errors # <<>>
        /\ Len(calls) = 1

C1_Witness ==
    /\ GenerateFailed
    /\ calls[1].res.exc = "LLM returned empty script content"
    /\ node = "END"

\* C2: after a successful Generate the run only ends after all four stages, with
\* final_script equal to the value returned by the last successful call, whatever
\* later stages fail; the output field of a failed stage holds the script that
\* stage was called with, which is the previous stage's output field.
C2_DegradeAndContinue ==
    GenerateSucceeded =>
        /\ node # "END" => ENABLED PipeNext
        /\ node = "END" =>
             /\ Len(calls) = 4
             /\ state.final_script = LastSuccessfulOutput
        /\ \A i \in 2..Len(calls) :
             ~calls[i].res.ok =>
                /\ state[OutputField(calls[i].stage)] = calls[i].input
                /\ calls[i].input = state[OutputField(calls[i - 1].stage)]

C2_Witness ==
    /\ node = "END"
    /\ Len(calls) = 4
    /\ calls[1].res.ok
    /\ \A i \in 2..4 : ~calls[i].res.ok
    /\ state.final_script = calls[1].res.value

\* C3: every step leaves the old errors list as a prefix of the new one, and
\* the list holds the failures in the order in which the stages failed.
C3_ErrorsOnlyGrow ==
    /\ [][IsPrefix(state.errors, state'.errors)]_vars
    /\ [](state.errors = FailureEntries(calls))

C3_Witness ==
    /\ Len(state.errors) = 3
    /\ state.errors[1].stage = "Accuracy check"
    /\ state.errors[3].stage = "Engagement"

\* C4: the stage calls made so far are an initial part of Generate, Verify,
\* Enhance, Polish: each is made at most once, in that order, and none again
\* after it failed.
C4_StagesOnceInOrder ==
    /\ Len(calls) <= Len(StageOrder)
    /\ \A i \in 1..Len(calls) : i <= Len(StageOrder) => calls[i].stage = StageOrder[i]

C4_Witness ==
    /\ Len(calls) = 4
    /\ ~calls[2].res.ok
    /\ ~calls[4].res.ok
    /\ node = "END"

----------------------------------------------------------------------------
(* Assembler properties                                                    *)

RECURSIVE TotalMs(_)
TotalMs(spans) == IF spans = <<>> THEN 0 ELSE Head(spans).ms + TotalMs(Tail(spans))

RECURSIVE SumSeq(_)
SumSeq(q) == IF q = <<>> THEN 0 ELSE Head(q) + SumSeq(Tail(q))

HasPauseCue(meta) == \E k \in 1..Len(meta.cues) : meta.cues[k] = "pause"

SpeakerChanges(metas) ==
    Cardinality({i \in 2..Len(metas) : metas[i].speaker # metas[i - 1].speaker})

PauseCued(metas) == Cardinality({i \in 1..Len(metas) : HasPauseCue(metas[i])})

\* The timeline the sequencing rule prescribes for aligned inputs and pause p.
RECURSIVE PrescribedBody(_, _, _, _)
PrescribedBody(processed, metas, p, i) ==
    IF i > Len(processed) THEN <<>>
    ELSE (IF i > 1 /\ metas[i].speaker # metas[i - 1].speaker
          THEN <<Span("silence", p)>> ELSE <<>>)
         \o (IF HasPauseCue(metas[i]) THEN <<Span("silence", 800)>> ELSE <<>>)
         \o <<Span("audio", processed[i])>>
         \o PrescribedBody(processed, metas, p, i + 1)

Aligned == Len(asmArgs.processed_segments) = Len(asmArgs.speaker_segments)

\* C6: a call whose two sequences differ in length produces no output: it does
\* not return a timeline.
C6_MismatchRejected == (asmPc # "off" /\ ~Aligned) => asmPc # "returned"

\* C7: for every pause p >= 0 the caller passes (0 included) and aligned inputs,
\* the spans between intro and outro are the prescribed ones with silences of
\* exactly p on speaker changes, and the total length is the sum of the span
\* lengths plus p per speaker change plus 800 per pause-cued turn plus the
\* intro and outro with their 500 ms gaps.
C7_TimelineAsPrescribed ==
    (asmPc = "returned" /\ Aligned /\ ~asmArgs.pause_ms.none) =>
        LET p == asmArgs.pause_ms.ms
            lead == IF asmArgs.intro.none THEN 0 ELSE 2
            tail == IF asmArgs.outro.none THEN 0 ELSE 2
            extras == (IF asmArgs.intro.none THEN 0 ELSE asmArgs.intro.ms + 500)
                      + (IF asmArgs.outro.none THEN 0 ELSE asmArgs.outro.ms + 500)
        IN /\ SubSeq(podcast, lead + 1, Len(podcast) - tail)
                = PrescribedBody(asmArgs.processed_segments,
                                 asmArgs.speaker_segments, p, 1)
           /\ TotalMs(podcast)
                = SumSeq(asmArgs.processed_segments)
                  + p * SpeakerChanges(asmArgs.speaker_segments)
                  + 800 * PauseCued(asmArgs.speaker_segments)
                  + extras

\* The same statement for the pauses the code does honour (p > 0).
C7_HoldsForPositivePause == asmArgs.pause_ms.ms # 0 => C7_TimelineAsPrescribed

----------------------------------------------------------------------------
(* Engine properties                                                       *)

\* C8: once a model load has failed the availability flag is false and stays
\* false, and every engine call begun after the failure ends with
\* TTSUnavailableError at its first _require_tts, without starting a load.
C8_UnavailableIsSticky ==
    loadFailed =>
        /\ ~tts_available
        /\ \A t \in Threads :
             thr[t].late =>
                /\ ~thr[t].tried
                /\ thr[t].pc \in {"idle", FirstPc(thr[t].entry)}
                /\ thr[t].pc = "idle" => thr[t].result = "TTSUnavailableError"

C8_Witness ==
    /\ loadFailed
    /\ \A e \in {"synthesize_all", "_get_model"} :
         \E t \in Threads :
            /\ thr[t].late
            /\ thr[t].entry = e
            /\ thr[t].pc = "idle"
            /\ thr[t].result = "TTSUnavailableError"

\* C12: the synthesis model is loaded at most once per process, also when
\* several threads ask for it before it has been loaded.
C12_ModelLoadedAtMostOnce == loads <= 1

----------------------------------------------------------------------------
(* Properties of the job API                                               *)

\* C5: a request with none of url, markdown, text is answered with an error
\* response by the endpoint that received it, upload-blog and generate-podcast
\* alike; it is never answered as a started job.
C5_NoContentRejectedSynchronously ==
    resp.empty => (resp.code >= 400 /\ resp.status = "error")

StatusOf(j) == jobs[j].status

RunIds == {JobIdStr(j) : j \in DOMAIN jobs}

\* The tasks that took the step from the current state to the next.
Stepped(t) == tasks'[t] # tasks[t]

\* C9: every path a run creates, writes or deletes lies under base_dir/run_id
\* and under no other run's directory, and a step changes the disk only under
\* the run directory of the task taking it, under any interleaving.
C9_RunsIsolated ==
    /\ [](\A e \in fsLog :
            /\ Under(e.path, RunDir(e.run))
            /\ \A r \in RunIds : r # e.run => ~Under(e.path, RunDir(r)))
    /\ [][\A p \in (fs \ fs') \cup (fs' \ fs) :
            \E t \in TaskIds :
                /\ Stepped(t)
                /\ Under(p, RunDir(RunIdOf(t)))
                /\ \A r \in RunIds : r # RunIdOf(t) => ~Under(p, RunDir(r))]_vars

\* Two runs with different ids wrote a segment; one was cleaned up while the
\* other's segment is still on disk.
C9_Witness ==
    \E e1 \in fsLog, e2 \in fsLog, e3 \in fsLog :
        /\ e1.run # e2.run
        /\ e1.op = "rmtree"
        /\ e3.run = e1.run /\ e3.op = "write" /\ e3.path \notin fs
        /\ e2.op = "write" /\ e2.path \in fs

\* C10: whenever a job is COMPLETED, its run directory base_dir/job_id does
\* not exist.
C10_CompletedHasNoRunDir ==
    \A j \in DOMAIN jobs :
        StatusOf(j) = "completed" => RunDir(JobIdStr(j)) \notin fs

\* C11: every job that enters SYNTHESIZING eventually is COMPLETED or FAILED,
\* given that the threadpool runs each task and each external call returns or
\* raises; no request removes or stops a task in flight.
C11_SynthesisEnds ==
    \A j \in JobIds :
        (j \in DOMAIN jobs /\ StatusOf(j) = "synthesizing")
            ~> (j \in DOMAIN jobs /\ StatusOf(j) \in {"completed", "failed"})

\* One job's synthesis ended COMPLETED, another's ended FAILED in synthesis.
C11_Witness ==
    \E j1 \in DOMAIN jobs, j2 \in DOMAIN jobs :
        /\ StatusOf(j1) = "completed"
        /\ "audio_file" \in DOMAIN jobs[j1]
        /\ StatusOf(j2) = "failed"
        /\ "segments" \in DOMAIN jobs[j2]
        /\ \A t \in TaskIds : tasks[t] = DoneTask

\* The script task t stores or rejects its result in this step.
ScriptStepEnds(t) ==
    tasks[t].kind = "script" /\ tasks[t].pc = "store" /\ tasks'[t] = DoneTask

\* C13: entries in errors alone never fail a script job. The script step marks
\* the job FAILED when final_script is empty or blank; with a non-blank
\* final_script, whatever errors holds, the script and the segments are stored,
\* the job is not FAILED, and get_job_script returns the errors with the
\* script (the step otherwise fails only on an exception while parsing or
\* saving the script).
C13_ErrorsAloneNeverFail ==
    [][\A t \in TaskIds :
        ScriptStepEnds(t) =>
            LET result == tasks[t].result
                final == FinalScriptOf(result)
                after == jobs'[tasks[t].job]
            IN IF BlankScript(final)
               THEN after.status = "failed"
               ELSE \/ /\ after.status = "enhancing_script"
                       /\ "segments" \in DOMAIN after
                       /\ get_job_script(after).script = final
                       /\ get_job_script(after).errors = Get(result, "errors", <<>>)
                    \/ /\ after.status = "failed"
                       /\ after.errors[Len(after.errors)] = "script task error"]_vars

\* A script was stored although its run recorded errors.
C13_Witness ==
    \E j \in DOMAIN jobs :
        /\ StatusOf(j) = "enhancing_script"
        /\ "script" \in DOMAIN jobs[j]
        /\ ~BlankScript(jobs[j].script)
        /\ get_job_script(jobs[j]).errors # <<>>

----------------------------------------------------------------------------
(* Properties of the chunker                                               *)

ChunkReturned == chunkPc = "returned"

ChunkParagraphs == split_paragraphs(chunkArgs.text)

\* C14: the chunks carry index 0, 1, 2, ... in emission order, with no gap
\* and no repeat, for every input and every size/overlap setting.
C14_IndicesSequential ==
    ChunkReturned => \A i \in 1..Len(chunks) : chunks[i].index = i - 1

\* A fitting paragraph, an oversized one split in two or more, a fitting one.
C14_Witness ==
    /\ ChunkReturned
    /\ Len(ChunkParagraphs) = 3
    /\ count_tokens(ChunkParagraphs[1]) <= chunkArgs.chunk_size
    /\ count_tokens(ChunkParagraphs[2]) > chunkArgs.chunk_size
    /\ count_tokens(ChunkParagraphs[3]) <= chunkArgs.chunk_size
    /\ Len(split_large_paragraph(ChunkParagraphs[2], chunkArgs.chunk_size,
                                 chunkArgs.chunk_overlap, 1)) >= 2
    /\ Len(chunks) >= 4

FitsLimit == count_tokens(chunkArgs.text) <= chunkArgs.chunk_size

HasOversizedSentence(text, chunk_size) ==
    \E i \in 1..Len(SplitSentences(text, <<>>)) :
        count_tokens(SplitSentences(text, <<>>)[i]) > chunk_size

\* C16: every chunk has at most chunk_size tokens unless it holds an atomic
\* sentence that by itself exceeds chunk_size.
C16_ChunksWithinLimit ==
    ChunkReturned =>
        \A i \in 1..Len(chunks) :
            \/ chunks[i].token_count <= chunkArgs.chunk_size
            \/ HasOversizedSentence(chunks[i].text, chunkArgs.chunk_size)

\* The last n words, all of them when there are fewer.
TrailingWords(words, n) ==
    IF n >= Len(words) THEN words ELSE SubSeq(words, Len(words) - n + 1, Len(words))

\* C17: each chunk after the first begins with the trailing overlap region of
\* the chunk before it.
C17_ConsecutiveChunksOverlap ==
    ChunkReturned =>
        \A n \in 1..(Len(chunks) - 1) :
            IsPrefix(TrailingWords(SplitWords(chunks[n].text),
                                   ApproxWords(chunkArgs.chunk_overlap)),
                     SplitWords(chunks[n + 1].text))

\* The words of a text, as a set (every word of a document is distinct).
WordSet(text) == {SplitWords(text)[k] : k \in 1..Len(SplitWords(text))}

\* The words chunk n + 1 has in common with chunk n: what was carried over.
CarriedWords(n) == WordSet(chunks[n].text) \cap WordSet(chunks[n + 1].text)

\* C24: what is carried from a chunk into the next is at most the last
\* floor(chunk_overlap / 1.3) words of it; with chunk_overlap 0 consecutive
\* chunks share no text.
C24_CarryWithinOverlap ==
    ChunkReturned =>
        \A n \in 1..(Len(chunks) - 1) :
            /\ CarriedWords(n) \subseteq
                  WordSet(TrailingWords(SplitWords(chunks[n].text),
                                        (10 * chunkArgs.chunk_overlap) \div 13))
            /\ chunkArgs.chunk_overlap = 0 => CarriedWords(n) = {}

\* C30: every chunk after the first holds a word that the chunk before it
\* does not hold: no chunk is only the overlap carried from its predecessor.
C30_EveryChunkAddsText ==
    ChunkReturned =>
        \A n \in 1..(Len(chunks) - 1) :
            ~(WordSet(chunks[n + 1].text) \subseteq WordSet(chunks[n].text))

\* The errors a later node records when it is handed no script.
NoScriptErrors == {"No script to fact-check", "No script to enhance", "No script to optimize"}

\* The run ended on the abort edge after generate_script.
RunAborted == node = "END" /\ GenerateFailed
\* The run ended after the four stages.
RunCompleted == node = "END" /\ ~GenerateFailed

\* C26: at the end of a run final_script is empty exactly when the run
\* aborted; a completed run has raw_script, accuracy_checked_script,
\* enhanced_script and final_script all non-empty; and no "No script to ..."
\* error is ever recorded.
C26_ScriptsPresentUnlessAborted ==
    /\ node = "END" => (state.final_script = <<>> <=> RunAborted)
    /\ RunCompleted =>
          \A i \in 1..Len(StageOrder) : state[OutputField(StageOrder[i])] # <<>>
    /\ \A i \in 1..Len(state.errors) : state.errors[i].stage \notin NoScriptErrors

\* A completed run in which every stage after the first failed.
C26_Witness ==
    /\ RunCompleted
    /\ Len(calls) = 4
    /\ \A i \in 2..4 : ~calls[i].res.ok
    /\ Len(state.errors) = 3
    /\ state.final_script = state.raw_script

----------------------------------------------------------------------------
(* Properties of the dialogue parser                                        *)

ParseReturned == parsePc = "returned"

\* The turns the parser found in the script, before any is dropped or split.
ParsedTurns ==
    split_into_turns(parseArgs.script,
                     IF parseArgs.fn = "parse_script" THEN "host" ELSE "dialogue")

\* C18: the turns returned by parse_script and parse_dialogue have speaker
\* HOST_A or HOST_B and index 0..n-1 in emission order, counted over the
\* final sequence (after dropped turns and after splitting).
C18_SpeakersAndIndices ==
    ParseReturned =>
        \A i \in 1..Len(segments) :
            /\ segments[i].speaker \in {"HOST_A", "HOST_B"}
            /\ segments[i].index = i - 1

\* A script with an unknown speaker, a turn that is only a cue and a long
\* turn, parsed into the two halves of the long turn.
C18_Witness ==
    /\ ParseReturned
    /\ parseArgs.fn = "parse_dialogue"
    /\ \E i \in 1..Len(ParsedTurns) : ParsedTurns[i].speaker \notin DOMAIN parseArgs.name_map
    /\ \E i \in 1..Len(ParsedTurns) :
          /\ ParsedTurns[i].speaker \in DOMAIN parseArgs.name_map
          /\ CleanText(ParsedTurns[i].text) = <<>>
    /\ \E i \in 1..Len(ParsedTurns) :
          /\ ParsedTurns[i].speaker \in DOMAIN parseArgs.name_map
          /\ StrLen(CleanText(ParsedTurns[i].text)) > MAX_SEGMENT_CHARS
    /\ Len(segments) = 2
    /\ segments[2].index = 1

\* A cue marker, a bracketed word or two-word phrase, somewhere in text.
HasCueMarker(text) == \E pos \in 1..Len(text) : MatchCue(text, pos).ok

\* C19: no returned turn's text contains a cue marker.
C19_NoCueMarkerInText ==
    ParseReturned => \A i \in 1..Len(segments) : ~HasCueMarker(segments[i].text)

\* Whether a parsed turn is kept, and the speaker its turns carry.
KnownSpeaker(name) ==
    parseArgs.fn = "parse_script" \/ name \in DOMAIN parseArgs.name_map
SpeakerOf(name) ==
    IF parseArgs.fn = "parse_script" THEN name ELSE parseArgs.name_map[name]

\* The texts of segments a..b joined by single spaces.
RECURSIVE JoinTexts(_, _, _)
JoinTexts(segs, a, b) ==
    IF a = b THEN segs[a].text
    ELSE segs[a].text \o <<Chr(" ")>> \o JoinTexts(segs, a + 1, b)

\* text with every whitespace character read as a space.
Spaced(text) == [k \in 1..Len(text) |-> IF IsWhite(text[k]) THEN Chr(" ") ELSE text[k]]

\* Segments a..b are the turns emitted for a body: consecutive, one speaker,
\* strictly increasing indices, and together the words of the body.
EmittedAs(a, b, speaker, body) ==
    /\ \A k \in a..b : segments[k].speaker = speaker
    /\ \A k \in a..(b - 1) : segments[k].index < segments[k + 1].index
    /\ Spaced(JoinTexts(segments, a, b)) = Spaced(body)

\* C20: every turn whose cleaned body is longer than 500 characters is
\* emitted as at least two consecutive turns with the original speaker and
\* strictly increasing indices.
C20_LongTurnsAreSplit ==
    ParseReturned =>
        \A i \in 1..Len(ParsedTurns) :
            LET body == CleanText(ParsedTurns[i].text)
            IN (KnownSpeaker(ParsedTurns[i].speaker) /\ StrLen(body) > MAX_SEGMENT_CHARS)
                => \E a \in 1..Len(segments) : \E b \in (a + 1)..Len(segments) :
                      EmittedAs(a, b, SpeakerOf(ParsedTurns[i].speaker), body)

\* The parsed turns that are to be emitted: the speaker is recognized and
\* the cleaned body is not empty.
KeptTurns ==
    SelectSeq(ParsedTurns,
              LAMBDA t : KnownSpeaker(t.speaker) /\ CleanText(t.text) # <<>>)

\* The segments from position a on are the kept turns from k on, in order,
\* each emitted as one or more consecutive segments.
RECURSIVE EmittedInOrder(_, _)
EmittedInOrder(k, a) ==
    IF k > Len(KeptTurns) THEN a = Len(segments) + 1
    ELSE \E b \in a..Len(segments) :
            /\ EmittedAs(a, b, SpeakerOf(KeptTurns[k].speaker),
                         CleanText(KeptTurns[k].text))
            /\ EmittedInOrder(k + 1, b + 1)

\* C21: parse_dialogue returns for every script; a turn whose label is not
\* in the name map is dropped while every recognized turn before and after
\* it is emitted in its original order, and empty input yields the empty list.
C21_UnknownDroppedRestKept ==
    (ParseReturned /\ parseArgs.fn = "parse_dialogue") =>
        /\ EmittedInOrder(1, 1)
        /\ parseArgs.script = <<>> => segments = <<>>

\* A recognized turn, an unknown one and a recognized one: two segments.
C21_Witness ==
    /\ ParseReturned
    /\ parseArgs.fn = "parse_dialogue"
    /\ Len(ParsedTurns) = 3
    /\ KnownSpeaker(ParsedTurns[1].speaker)
    /\ ~KnownSpeaker(ParsedTurns[2].speaker)
    /\ KnownSpeaker(ParsedTurns[3].speaker)
    /\ Len(KeptTurns) = 2
    /\ Len(segments) = 2

CanonicalTags == {"HOST_A", "HOST_B"}

\* C22: under every name map a turn labelled HOST_A or HOST_B is emitted
\* with that speaker: it is neither dropped as unknown nor remapped.
C22_CanonicalTagsResolveFirst ==
    (ParseReturned /\ parseArgs.fn = "parse_dialogue") =>
        \A i \in 1..Len(ParsedTurns) :
            LET body == CleanText(ParsedTurns[i].text)
            IN (ParsedTurns[i].speaker \in CanonicalTags /\ body # <<>>)
                => \E a \in 1..Len(segments) : \E b \in a..Len(segments) :
                      EmittedAs(a, b, ParsedTurns[i].speaker, body)

\* C23: serializing the turns parsed from a script with segments_to_script
\* and parsing the result again yields the same turns (speakers, texts, cue
\* lists and indices).
C23_RoundTrip ==
    (ParseReturned /\ parseArgs.fn = "parse_script") =>
        ParseScript(segments_to_script(segments)) = segments

\* No sentence of the body is longer than the maximum segment length.
SentencesFit(body) ==
    LET sentences == SplitAtSentenceEnds(body, <<>>)
    IN \A k \in 1..Len(sentences) : StrLen(sentences[k]) <= MAX_SEGMENT_CHARS

\* C25: when a long turn is split (here: the only turn of the script comes
\* back as several turns) and no sentence of its body is longer than 500
\* characters, every emitted sub-turn's text is at most 500 characters.
C25_SubTurnsWithinLimit ==
    (/\ ParseReturned
     /\ Len(KeptTurns) = 1
     /\ Len(segments) >= 2
     /\ SentencesFit(CleanText(KeptTurns[1].text)))
        => \A k \in 1..Len(segments) : StrLen(segments[k].text) <= MAX_SEGMENT_CHARS

(***************************************************************************)
(* Further properties of the job API.                                      *)

\* The tasks that are in, or about to enter, the synthesis of job j:
\* a _synthesize_audio task at any point, a _full_pipeline task from its
\* call of synthesize_all on.
SynthesisTasks(j) ==
    {t \in TaskIds :
        /\ tasks[t].job = j
        /\ \/ tasks[t].kind = "synth"
           \/ tasks[t].kind = "full" /\ tasks[t].pc \notin {"ingest", "pipeline"}}

\* The tasks of job j that work in its run directory base_dir/job_id.
InRunDir(j) ==
    {t \in SynthesisTasks(j) : tasks[t].pc \in {"seg", "tts", "post", "process", "cleanup"}}

\* C27: for one job at most one synthesis background task is running at any
\* time, so no two tasks work in the same run directory concurrently.
C27_OneSynthesisPerJob ==
    \A j \in DOMAIN jobs :
        /\ Cardinality(SynthesisTasks(j)) <= 1
        /\ Cardinality(InRunDir(j)) <= 1

TerminalStatuses == {"completed", "failed"}

\* C28: once a job's status is COMPLETED or FAILED, no request and no
\* background task changes it.
C28_TerminalStatusKept ==
    [][\A j \in DOMAIN jobs :
          StatusOf(j) \in TerminalStatuses => jobs'[j].status = StatusOf(j)]_vars

\* The progress a job reports (GET /job/{job_id}: job.get("progress", 0.0)),
\* in percent.
ProgressOf(job) == Get(job, "progress", 0)

\* C29, first half: a job's reported progress always lies in [0, 1].
C29_ProgressInRange ==
    \A j \in DOMAIN jobs : ProgressOf(jobs[j]) \in 0..100

\* C29: a job's reported progress lies in [0, 1] and never decreases over
\* the job's lifetime.
C29_ProgressMonotone ==
    [][\A j \in DOMAIN jobs :
          /\ ProgressOf(jobs'[j]) \in 0..100
          /\ ProgressOf(jobs'[j]) >= ProgressOf(jobs[j])]_vars

====
